---- MODULE Spec2Model ----
(***************************************************************************)
(* Heys' cipher (16-bit SPN, 4 rounds, 5 round keys) and the linear        *)
(* cryptanalysis of its last round key, after src/src/heys.rs and the      *)
(* drivers under src/src/bin.                                              *)
(*                                                                         *)
(* A Block is its u16 value.  A call's outcome is a record                 *)
(*   [kind |-> "Ok", val |-> v]      the value returned (Ok(v), or v)      *)
(*   [kind |-> "Err", val |-> msg]   an Err(msg) returned to the caller    *)
(*   [kind |-> "Panic", val |-> msg] the thread panicked (unwrap, overflow)*)
(***************************************************************************)
EXTENDS Integers, Sequences, FiniteSets, TLC

VARIABLES
  overflow_checks,  \* build profile: integer overflow panics (debug) or wraps
  cipher,           \* outcome of HeysCipher::from_keys
  pt,               \* a block: the plaintext / the input of a transform
  ct,               \* a block: the ciphertext
  pt_locs,          \* plaintext bit positions of the approximation
  u4_locs,          \* U4 bit positions of the approximation
  plaintexts,       \* corpus, plaintext side
  ciphertexts,      \* corpus, ciphertext side
  copies,           \* how many times in a row the corpus holds the two above
  op,               \* the last operation that ran, with its table if any
  ret,              \* its outcome
  rankings,         \* outcome of brute_force_k5
  restricted        \* the ranking partb's main builds

inputs == <<overflow_checks, cipher, pt, pt_locs, u4_locs, plaintexts,
            ciphertexts, copies>>

vars == <<inputs, ct, op, ret, rankings, restricted>>

-----------------------------------------------------------------------------
(* Outcomes *)

Ok(v) == [kind |-> "Ok", val |-> v]
Err(m) == [kind |-> "Err", val |-> m]
Panic(m) == [kind |-> "Panic", val |-> m]
None == [kind |-> "None", val |-> 0]

U16_MAX == 65535
U16 == 0..U16_MAX

Failed(r) == r.kind # "Ok"

\* Result::unwrap: the value, or a panic carrying the error
unwrap(r) == IF r.kind = "Err" THEN Panic(r.val) ELSE r

\* u16 + u16: panics when overflow checks are on, wraps otherwise
add_u16(a, b) ==
  IF a + b <= U16_MAX THEN Ok(a + b)
  ELSE IF overflow_checks THEN Panic("attempt to add with overflow")
  ELSE Ok((a + b) % (U16_MAX + 1))

\* acc + r once both are there: the failure of acc, else that of r, goes
\* to the caller
AddTo(acc, r) ==
  IF Failed(acc) THEN acc
  ELSE IF Failed(r) THEN r
  ELSE add_u16(acc.val, r.val)

-----------------------------------------------------------------------------
(* Tables: association lists of (from, to) *)

SBOX ==
  << <<0, 14>>, <<1, 4>>, <<2, 13>>, <<3, 1>>, <<4, 2>>, <<5, 15>>,
     <<6, 11>>, <<7, 8>>, <<8, 3>>, <<9, 10>>, <<10, 6>>, <<11, 12>>,
     <<12, 5>>, <<13, 9>>, <<14, 0>>, <<15, 7>> >>

SBOX_INVERT ==
  << <<14, 0>>, <<4, 1>>, <<13, 2>>, <<1, 3>>, <<2, 4>>, <<15, 5>>,
     <<11, 6>>, <<8, 7>>, <<3, 8>>, <<10, 9>>, <<6, 10>>, <<12, 11>>,
     <<5, 12>>, <<9, 13>>, <<0, 14>>, <<7, 15>> >>

\* a slip in one entry: 0x4000 sent to 0x8000 as well
PERMUTATION_Dup ==
  << <<32768, 32768>>, <<16384, 32768>>, <<8192, 128>>, <<4096, 8>>,
     <<2048, 16384>>, <<1024, 1024>>, <<512, 64>>, <<256, 4>>,
     <<128, 8192>>, <<64, 512>>, <<32, 32>>, <<16, 2>>,
     <<8, 4096>>, <<4, 256>>, <<2, 16>>, <<1, 1>> >>

PERMUTATION ==
  << <<32768, 32768>>, <<16384, 2048>>, <<8192, 128>>, <<4096, 8>>,
     <<2048, 16384>>, <<1024, 1024>>, <<512, 64>>, <<256, 4>>,
     <<128, 8192>>, <<64, 512>>, <<32, 32>>, <<16, 2>>,
     <<8, 4096>>, <<4, 256>>, <<2, 16>>, <<1, 1>> >>

PERMUTATION_INVERT ==
  << <<32768, 32768>>, <<2048, 16384>>, <<128, 8192>>, <<8, 4096>>,
     <<16384, 2048>>, <<1024, 1024>>, <<64, 512>>, <<4, 256>>,
     <<8192, 128>>, <<512, 64>>, <<32, 32>>, <<2, 16>>,
     <<4096, 8>>, <<256, 4>>, <<16, 2>>, <<1, 1>> >>

RECURSIVE lookupFrom(_, _, _)
lookupFrom(kvpairs, val, i) ==
  IF i > Len(kvpairs) THEN Err("Lookup failed")
  ELSE IF kvpairs[i][1] = val THEN Ok(kvpairs[i][2])
  ELSE lookupFrom(kvpairs, val, i + 1)

\* the first pair whose from is val
lookup(kvpairs, val) == lookupFrom(kvpairs, val, 1)

-----------------------------------------------------------------------------
(* Block *)

RECURSIVE BitXor(_, _, _)
BitXor(a, b, w) ==
  IF w = 0 THEN 0
  ELSE ((a + b) % 2) + 2 * BitXor(a \div 2, b \div 2, w - 1)

\* self.val ^ key
mix_key(val, key) == BitXor(val, key, 16)

Shl(n) == 2 ^ n

\* a u16 shifted left by n < 16: the bits pushed out are lost
Shl16(v, n) == (v * Shl(n)) % (U16_MAX + 1)

get_bit_1base(val, loc) ==
  IF loc < 1 \/ loc > 16 THEN Err("loc must be between 1 and 16")
  ELSE LET mask == Shl(16 - loc)
       IN IF (val \div mask) % 2 = 0 THEN Ok(0) ELSE Ok(1)

\* b3 + b2 + b1 + b0 of the looked-up nibbles, shifted into place; the
\* first lookup that failed returns its error
Assemble(b0, b1, b2, b3) ==
  IF Failed(b0) THEN b0
  ELSE IF Failed(b1) THEN b1
  ELSE IF Failed(b2) THEN b2
  ELSE IF Failed(b3) THEN b3
  ELSE AddTo(AddTo(add_u16(Shl16(b3.val, 12), Shl16(b2.val, 8)),
                   Ok(Shl16(b1.val, 4))),
             b0)

\* the two middle nibbles put back in each other's place
substitute_Swapped(val, sbox) ==
  Assemble(lookup(sbox, val % 16),
           lookup(sbox, (val \div 256) % 16),
           lookup(sbox, (val \div 16) % 16),
           lookup(sbox, (val \div 4096) % 16))

substitute(val, sbox) ==
  Assemble(lookup(sbox, val % 16),
           lookup(sbox, (val \div 16) % 16),
           lookup(sbox, (val \div 256) % 16),
           lookup(sbox, (val \div 4096) % 16))

\* the loop of permute from shift on, val being the outcome so far
RECURSIVE permuteFrom(_, _, _, _)
permuteFrom(self, permutation, shift, val) ==
  IF Failed(val) \/ shift = 16 THEN val
  ELSE permuteFrom(self, permutation, shift + 1,
                   IF (self \div Shl(shift)) % 2 # 0
                   THEN AddTo(val, lookup(permutation, Shl(shift)))
                   ELSE val)

permute(self, permutation) == permuteFrom(self, permutation, 0, Ok(0))

\* r?.substitute(sbox), r?.permute(permutation), r?.mix_key(key): the call
\* on the value of r, or the failure of r returned at once
then_substitute(r, sbox) ==
  IF Failed(r) THEN r ELSE substitute(r.val, sbox)

then_permute(r, permutation) ==
  IF Failed(r) THEN r ELSE permute(r.val, permutation)

then_mix_key(r, key) ==
  IF Failed(r) THEN r ELSE Ok(mix_key(r.val, key))

-----------------------------------------------------------------------------
(* HeysCipher: round_keys is the sequence of the 5 round keys, k[i+1] being *)
(* round_keys[i] of the source                                              *)

from_keys(new_keys) ==
  IF Len(new_keys) # 5 THEN Err("Cipher requires exactly 5 round keys")
  ELSE Ok([i \in 1..5 |-> new_keys[i]])

\* v.permute(&PERMUTATION)?.mix_key(key), then .substitute(&SBOX)?
EncRound(v, key) ==
  then_substitute(then_mix_key(then_permute(v, PERMUTATION), key), SBOX)

encrypt(round_keys, plaintext) ==
  then_mix_key(
    EncRound(
      EncRound(
        EncRound(substitute(mix_key(plaintext, round_keys[1]), SBOX),
                 round_keys[2]),
        round_keys[3]),
      round_keys[4]),
    round_keys[5])

\* u.mix_key(key).permute(&PERMUTATION_INVERT)?, then
\* .substitute(&SBOX_INVERT)?
DecRound(u, key) ==
  then_substitute(then_permute(then_mix_key(u, key), PERMUTATION_INVERT),
                  SBOX_INVERT)

\* the last round key left out of the first step
decrypt_NoWhitening(round_keys, ciphertext) ==
  then_mix_key(
    DecRound(
      DecRound(
        DecRound(substitute(ciphertext, SBOX_INVERT), round_keys[4]),
        round_keys[3]),
      round_keys[2]),
    round_keys[1])

decrypt(round_keys, ciphertext) ==
  then_mix_key(
    DecRound(
      DecRound(
        DecRound(substitute(mix_key(ciphertext, round_keys[5]), SBOX_INVERT),
                 round_keys[4]),
        round_keys[3]),
      round_keys[2]),
    round_keys[1])

\* locs.iter().map(|loc| b.get_bit_1base(*loc).unwrap()).sum::<u16>(), from
\* position i on, acc being the outcome so far
RECURSIVE SumBits(_, _, _, _)
SumBits(val, locs, i, acc) ==
  IF Failed(acc) \/ i > Len(locs) THEN acc
  ELSE SumBits(val, locs, i + 1,
               AddTo(acc, unwrap(get_bit_1base(val, locs[i]))))

\* the vote inverted: 1 when the parity is odd
vote_Flipped(binsum) ==
  IF Failed(binsum) THEN binsum ELSE Ok(binsum.val % 2)

\* 1 - binsum % 2
vote(binsum) ==
  IF Failed(binsum) THEN binsum ELSE Ok(1 - (binsum.val % 2))

\* binsum after the two sums: the bits of the plaintext, then those of u4
binsum_of(u4, p, plocs, ulocs) ==
  IF Failed(u4) THEN u4
  ELSE AddTo(AddTo(Ok(0), SumBits(p, plocs, 1, Ok(0))),
             SumBits(u4.val, ulocs, 1, Ok(0)))

check_linear_approx(round_keys, p, c, plocs, ulocs) ==
  vote(binsum_of(unwrap(substitute(mix_key(c, round_keys[5]), SBOX_INVERT)),
                 p, plocs, ulocs))

-----------------------------------------------------------------------------
(* f64.  Every finite value the program computes lies in [0, 1] and is a    *)
(* multiple of 2^-72 (a quotient c/n with 0 <= c <= n < 2^19 rounded to 53  *)
(* significant bits, and its distance to 0.5), so a value is held exactly   *)
(* as <<i, l1, l2, l3>>: i + (l1 + (l2 + l3 / Limb) / Limb) / Limb with the *)
(* limbs l1, l2, l3 in 0..Limb-1.  NaN is apart.                            *)

Mantissa == 53
LimbBits == 24
Limb == 2 ^ LimbBits

F64(w) == [nan |-> FALSE, w |-> w]
NaN == [nan |-> TRUE, w |-> <<0, 0, 0, 0>>]
Half == F64(<<0, Limb \div 2, 0, 0>>)

\* a < b, both finite
FxLess(a, b) ==
  \E i \in 1..4 : a[i] < b[i] /\ \A j \in 1..(i - 1) : a[j] = b[j]

\* a - b for a >= b, exact
FxSub(a, b) ==
  LET d4 == a[4] - b[4]
      c4 == IF d4 < 0 THEN 1 ELSE 0
      d3 == a[3] - b[3] - c4
      c3 == IF d3 < 0 THEN 1 ELSE 0
      d2 == a[2] - b[2] - c3
      c2 == IF d2 < 0 THEN 1 ELSE 0
  IN <<a[1] - b[1] - c2, d2 + c2 * Limb, d3 + c3 * Limb, d4 + c4 * Limb>>

\* w plus u units of the last limb, carried
FxAddLast(w, u) ==
  LET s4 == w[4] + u
      s3 == w[3] + (s4 \div Limb)
      s2 == w[2] + (s3 \div Limb)
  IN <<w[1] + (s2 \div Limb), s2 % Limb, s3 % Limb, s4 % Limb>>

\* w (followed by further nonzero bits when sticky) rounded to Mantissa
\* significant bits, to the nearest and to even on a tie.  With the leading
\* bit at position lead (1: the unit bit, 2: the top bit of l1, ...) the
\* last bit kept is lead + Mantissa - 1 of the 1 + 3 * LimbBits held, so
\* the bits dropped, if any, are the low ones of l3.
F64RoundTo(w, sticky) ==
  LET lead == IF w[1] > 0 THEN 1
              ELSE IF w[2] > 0
              THEN 1 + LimbBits
                   - (CHOOSE e \in 0..(LimbBits - 1) :
                        2 ^ e <= w[2] /\ w[2] < 2 ^ (e + 1))
              ELSE 2 + LimbBits
      drop == (1 + 3 * LimbBits) - (lead + Mantissa - 1)
  IN IF drop <= 0 THEN w
     ELSE LET unit == 2 ^ drop
              low == w[4] % unit
              kept == <<w[1], w[2], w[3], w[4] - low>>
              odd == (w[4] \div unit) % 2 = 1
              up == \/ 2 * low > unit
                    \/ 2 * low = unit /\ (sticky \/ odd)
          IN IF up THEN FxAddLast(kept, unit) ELSE kept

\* the digits of r / n after the point, for r < n, in base 2^12: six of them
\* (72 bits) and whether anything is left
QuotLimbs(r, n) ==
  LET B == 2 ^ (LimbBits \div 2)
      d1 == (r * B) \div n
      r1 == (r * B) % n
      d2 == (r1 * B) \div n
      r2 == (r1 * B) % n
      d3 == (r2 * B) \div n
      r3 == (r2 * B) % n
      d4 == (r3 * B) \div n
      r4 == (r3 * B) % n
      d5 == (r4 * B) \div n
      r5 == (r4 * B) % n
      d6 == (r5 * B) \div n
      r6 == (r5 * B) % n
  IN [w |-> <<d1 * B + d2, d3 * B + d4, d5 * B + d6>>, inexact |-> r6 # 0]

\* i + q.w / Limb^3 rounded
F64Quot(i, q) == F64(F64RoundTo(<<i>> \o q.w, q.inexact))

\* (c as f64) / (n as f64) for 0 <= c <= n: u16 and usize values convert
\* exactly
F64Div(c, n) ==
  IF n = 0 THEN NaN ELSE F64Quot(c \div n, QuotLimbs(c % n, n))

\* if prob > 0.5 { prob - 0.5 } else { 0.5 - prob }
BiasOf(prob) ==
  IF prob.nan THEN NaN
  ELSE IF FxLess(Half.w, prob.w)
  THEN F64(F64RoundTo(FxSub(prob.w, Half.w), FALSE))
  ELSE F64(F64RoundTo(FxSub(Half.w, prob.w), FALSE))

\* a.partial_cmp(b)
partial_cmp(a, b) ==
  IF a.nan \/ b.nan THEN "None"
  ELSE IF FxLess(a.w, b.w) THEN "Less"
  ELSE IF FxLess(b.w, a.w) THEN "Greater"
  ELSE "Equal"

-----------------------------------------------------------------------------
(* Bias and key ranking *)

Min(a, b) == IF a <= b THEN a ELSE b

NoVotes == [panic |-> None, sum |-> 0]

VoteOf(v) ==
  IF v.kind = "Ok" THEN [panic |-> None, sum |-> v.val]
  ELSE [panic |-> v, sum |-> 0]

\* the votes of left, then those of right unless left panicked
VoteJoin(left, right) ==
  IF left.panic.kind # "None" THEN left
  ELSE [panic |-> right.panic, sum |-> left.sum + right.sum]

\* the votes of pairs lo..hi of the zipped corpus, in order: their sum up to
\* the first vote that panics, and that panic if there is one
RECURSIVE VoteSum(_, _, _, _, _, _, _)
VoteSum(round_keys, pts, cts, plocs, ulocs, lo, hi) ==
  IF lo = hi
  THEN VoteOf(check_linear_approx(round_keys, pts[lo], cts[lo], plocs, ulocs))
  ELSE VoteJoin(VoteSum(round_keys, pts, cts, plocs, ulocs,
                        lo, (lo + hi) \div 2),
                VoteSum(round_keys, pts, cts, plocs, ulocs,
                        (lo + hi) \div 2 + 1, hi))

\* .sum::<u16>() over the votes.  The sum grows by 0 or 1 a pair, so it
\* overflows at the pair that would make it 65536: before a later vote's
\* panic, and never when the votes before the first panic number at most
\* 65535.
SumU16(votes) ==
  IF votes.sum > U16_MAX /\ overflow_checks
  THEN Panic("attempt to add with overflow")
  ELSE IF votes.panic.kind # "None" THEN votes.panic
  ELSE Ok(votes.sum % (U16_MAX + 1))

\* plaintexts.iter().zip(ciphertexts.iter()).map(..).sum::<u16>()
vote_sum(round_keys, pts, cts, plocs, ulocs) ==
  SumU16(IF Min(Len(pts), Len(cts)) = 0 THEN NoVotes
         ELSE VoteSum(round_keys, pts, cts, plocs, ulocs,
                      1, Min(Len(pts), Len(cts))))

\* prob and the bias, from the sum of the votes and plaintexts.len()
bias_of(sum, len) ==
  IF Failed(sum) THEN sum ELSE Ok(BiasOf(F64Div(sum.val, len)))

get_bias(round_keys, pts, cts, plocs, ulocs) ==
  bias_of(vote_sum(round_keys, pts, cts, plocs, ulocs), Len(pts))

\* the comparison the other way round: the smallest first
RECURSIVE Descending_Ascending(_)
Descending_Ascending(bs) ==
  IF bs = {} THEN <<>>
  ELSE LET low == CHOOSE b \in bs : \A o \in bs : ~FxLess(o.w, b.w)
       IN <<low>> \o Descending_Ascending(bs \ {low})

\* the distinct biases of v, the largest first
RECURSIVE Descending(_)
Descending(bs) ==
  IF bs = {} THEN <<>>
  ELSE LET top == CHOOSE b \in bs : \A o \in bs : ~FxLess(b.w, o.w)
       IN <<top>> \o Descending(bs \ {top})

RECURSIVE Buckets(_, _, _)
Buckets(v, order, i) ==
  IF i > Len(order) THEN <<>>
  ELSE LET Same(e) == e[1] = order[i]
       IN SelectSeq(v, Same) \o Buckets(v, order, i + 1)

\* v.sort_by(|e1, e2| e2.0.partial_cmp(e1.0).unwrap()): the stable sort of
\* the standard library; it compares every element of a slice of 2 or more
sort_by(v) ==
  IF Len(v) >= 2 /\ \E i \in 1..Len(v) : v[i][1].nan
  THEN Panic("called Option::unwrap on a None value")
  ELSE Ok(Buckets(v, Descending({v[i][1] : i \in 1..Len(v)}), 1))

\* guess.get_bias(..) of the cipher guess that from_keys(..).unwrap() gave
bias_under(guess, pts, cts, plocs, ulocs) ==
  IF Failed(guess) THEN guess
  ELSE get_bias(guess.val, pts, cts, plocs, ulocs)

\* the outcomes got[i] of the candidates keys[i] collected and sorted; the
\* first panic of a candidate ends the whole
Collect(keys, got) ==
  LET bad == {i \in 1..Len(keys) : got[i].kind # "Ok"}
  IN IF bad # {} THEN got[CHOOSE i \in bad : \A j \in bad : i <= j]
     ELSE sort_by(<<>> \o [i \in 1..Len(keys) |-> <<got[i].val, keys[i]>>])

\* the (bias, round_key) pairs of the candidates keys[1], keys[2], ..., each
\* under the cipher [0, 0, 0, 0, round_key], then sorted
Rank(keys, pts, cts, plocs, ulocs) ==
  Collect(keys, <<>> \o [i \in 1..Len(keys) |->
    bias_under(unwrap(from_keys(<<0, 0, 0, 0, keys[i]>>)),
               pts, cts, plocs, ulocs)])

\* the candidates brute_force_k5 enumerates: u16::MIN..=u16::MAX, cut at
\* MaxRoundKey
MaxRoundKey == 271
Candidates == [i \in 1..(Min(MaxRoundKey, U16_MAX) + 1) |-> i - 1]

brute_force_k5(pts, cts, plocs, ulocs) ==
  Rank(Candidates, pts, cts, plocs, ulocs)

\* the first nibble shifted by 4 instead of 8
PartbCandidates_Shl4 ==
  [i \in 1..256 |-> ((i - 1) \div 16) * 16 + ((i - 1) % 16)]

\* partb: (bits_5_to_8 << 8) + bits_13_to_16, bits_13_to_16 running fastest
PartbCandidates ==
  [i \in 1..256 |-> ((i - 1) \div 16) * 256 + ((i - 1) % 16)]

partb_main(pts, cts) ==
  Rank(PartbCandidates, pts, cts, <<5, 7, 8>>, <<6, 8, 14, 16>>)

-----------------------------------------------------------------------------
(* Inputs *)

\* key lists handed to from_keys: the unit test's, main's all-zero one, one
\* sharing the test's last round key, a random one, and two of a wrong length
KeyLists ==
  { <<1, 2, 3, 4, 5>>, <<0, 0, 0, 0, 0>>, <<9, 8, 7, 6, 5>>,
    <<64910, 13802, 60451, 2597, 21671>>,
    <<1, 2, 3, 4>>, <<1, 2, 3, 4, 5, 6>> }

SampleBlocks == {0, 1, 4660, 3855, 32769, 43981, 61440, 65535}

\* position lists: the two approximations of the drivers, the empty list, a
\* repeated position, and two lists with a position outside 1..16
LocLists ==
  { <<>>, <<5, 7, 8>>, <<6, 8, 14, 16>>, <<1, 4, 9, 12>>, <<2, 6, 10, 14>>,
    <<16, 16>>, <<0>>, <<3, 17>> }

ValidLocs(locs) == \A i \in 1..Len(locs) : locs[i] \in 1..16

Approximations ==
  { <<(<<5, 7, 8>>), (<<6, 8, 14, 16>>)>>,
    <<(<<1, 4, 9, 12>>), (<<2, 6, 10, 14>>)>>,
    <<(<<>>), (<<16>>)>> }

MaxLen == 3

\* sequences over S of length 0..n
RECURSIVE SeqsUpTo(_, _)
SeqsUpTo(S, n) ==
  IF n = 0 THEN {<<>>}
  ELSE LET shorter == SeqsUpTo(S, n - 1)
       IN shorter \cup {Append(q, x) : q \in shorter, x \in S}

CorpusBlocks == {4660, 52719}

\* s written out n times in a row
Repeated(s, n) ==
  IF n = 1 THEN s
  ELSE <<>> \o [i \in 1..(n * Len(s)) |-> s[((i - 1) % Len(s)) + 1]]

NoResults ==
  /\ op = <<"init", "">>
  /\ ret = None
  /\ rankings = None
  /\ restricted = None

-----------------------------------------------------------------------------
(* Block transforms: every block through both tables of each kind under    *)
(* the test profile, the sample blocks without overflow checks             *)

TableOf(name) ==
  CASE name = "SBOX" -> SBOX
    [] name = "SBOX_INVERT" -> SBOX_INVERT
    [] name = "PERMUTATION" -> PERMUTATION
    [] name = "PERMUTATION_INVERT" -> PERMUTATION_INVERT

InitBlock ==
  /\ \/ overflow_checks = TRUE /\ pt \in U16
     \/ overflow_checks = FALSE /\ pt \in SampleBlocks
  /\ cipher = None
  /\ ct = 0
  /\ pt_locs = <<>> /\ u4_locs = <<>>
  /\ plaintexts = <<>> /\ ciphertexts = <<>> /\ copies = 1
  /\ NoResults

Substitute ==
  /\ op[1] = "init"
  /\ \E t \in {"SBOX", "SBOX_INVERT"} :
       /\ op' = <<"substitute", t>>
       /\ ret' = substitute(pt, TableOf(t))
  /\ UNCHANGED <<inputs, ct, rankings, restricted>>

Permute ==
  /\ op[1] = "init"
  /\ \E t \in {"PERMUTATION", "PERMUTATION_INVERT"} :
       /\ op' = <<"permute", t>>
       /\ ret' = permute(pt, TableOf(t))
  /\ UNCHANGED <<inputs, ct, rankings, restricted>>

NextBlock == Substitute \/ Permute

SpecBlock == InitBlock /\ [][NextBlock]_vars

-----------------------------------------------------------------------------
(* The cipher: the unit test's key over the whole block space under the     *)
(* test profile, every key list over the sample blocks under both profiles  *)

Init ==
  /\ \/ /\ overflow_checks = TRUE
        /\ cipher = from_keys(<<1, 2, 3, 4, 5>>)
        /\ pt \in U16
     \/ /\ overflow_checks \in BOOLEAN
        /\ \E keys \in KeyLists : cipher = from_keys(keys)
        /\ pt \in SampleBlocks
  /\ ct = 0
  /\ pt_locs = <<>> /\ u4_locs = <<>>
  /\ plaintexts = <<>> /\ ciphertexts = <<>> /\ copies = 1
  /\ NoResults

Encrypt ==
  /\ op[1] = "init"
  /\ cipher.kind = "Ok"
  /\ op' = <<"encrypt", "">>
  /\ ret' = encrypt(cipher.val, pt)
  /\ ct' = IF ret'.kind = "Ok" THEN ret'.val ELSE ct
  /\ UNCHANGED <<inputs, rankings, restricted>>

Decrypt ==
  /\ op[1] = "encrypt"
  /\ ret.kind = "Ok"
  /\ op' = <<"decrypt", "">>
  /\ ret' = decrypt(cipher.val, ct)
  /\ UNCHANGED <<inputs, ct, rankings, restricted>>

Next == Encrypt \/ Decrypt

Spec == Init /\ [][Next]_vars

-----------------------------------------------------------------------------
(* One vote: every key list, sample blocks and position lists *)

InitApprox ==
  /\ overflow_checks \in BOOLEAN
  /\ \E keys \in KeyLists : cipher = from_keys(keys)
  /\ pt \in SampleBlocks
  /\ ct \in SampleBlocks
  /\ pt_locs \in LocLists
  /\ u4_locs \in LocLists
  /\ plaintexts = <<>> /\ ciphertexts = <<>> /\ copies = 1
  /\ NoResults

CheckLinearApprox ==
  /\ op[1] = "init"
  /\ cipher.kind = "Ok"
  /\ op' = <<"check_linear_approx", "">>
  /\ ret' = check_linear_approx(cipher.val, pt, ct, pt_locs, u4_locs)
  /\ UNCHANGED <<inputs, ct, rankings, restricted>>

NextApprox == CheckLinearApprox

SpecApprox == InitApprox /\ [][NextApprox]_vars

-----------------------------------------------------------------------------
(* The bias of a corpus: the two sides drawn apart, of 0..MaxLen blocks     *)
(* each, and one pair 65535 and 65536 times over with no position chosen,   *)
(* so that every pair votes                                                 *)

BiasApproximations == Approximations \cup { <<(<<5, 7, 8>>), (<<0>>)>> }

InitBias ==
  /\ overflow_checks \in BOOLEAN
  /\ \E keys \in {<<1, 2, 3, 4, 5>>, <<0, 0, 0, 0, 0>>} :
       cipher = from_keys(keys)
  /\ pt = 0 /\ ct = 0
  /\ \/ /\ plaintexts = <<4660>>
        /\ ciphertexts = <<52719>>
        /\ copies \in {U16_MAX, U16_MAX + 1}
        /\ cipher.val[5] = 0
        /\ pt_locs = <<>> /\ u4_locs = <<>>
     \/ /\ plaintexts \in SeqsUpTo(CorpusBlocks, MaxLen)
        /\ ciphertexts \in SeqsUpTo(CorpusBlocks, MaxLen)
        /\ copies = 1
        /\ \E a \in BiasApproximations : pt_locs = a[1] /\ u4_locs = a[2]
  /\ NoResults

GetBias ==
  /\ op[1] = "init"
  /\ cipher.kind = "Ok"
  /\ op' = <<"get_bias", "">>
  /\ ret' = get_bias(cipher.val, Repeated(plaintexts, copies),
                     Repeated(ciphertexts, copies), pt_locs, u4_locs)
  /\ UNCHANGED <<inputs, ct, rankings, restricted>>

NextBias == GetBias

SpecBias == InitBias /\ [][NextBias]_vars

-----------------------------------------------------------------------------
(* The attack: brute_force_k5 and partb's restricted search over the same   *)
(* corpus of 0..MaxLen pairs, under the default profile of cargo run        *)

CorpusPairs == { <<4660, 52719>>, <<43981, 9>> }

InitAttack ==
  /\ overflow_checks = TRUE
  /\ cipher = None
  /\ pt = 0 /\ ct = 0
  /\ copies = 1
  /\ \E corpus \in SeqsUpTo(CorpusPairs, MaxLen) :
       /\ plaintexts = [i \in 1..Len(corpus) |-> corpus[i][1]]
       /\ ciphertexts = [i \in 1..Len(corpus) |-> corpus[i][2]]
  /\ \E a \in Approximations : pt_locs = a[1] /\ u4_locs = a[2]
  /\ NoResults

BruteForceK5 ==
  /\ rankings = None
  /\ rankings' = brute_force_k5(plaintexts, ciphertexts, pt_locs, u4_locs)
  /\ UNCHANGED <<inputs, ct, op, ret, restricted>>

PartB ==
  /\ restricted = None
  /\ restricted' = partb_main(plaintexts, ciphertexts)
  /\ UNCHANGED <<inputs, ct, op, ret, rankings>>

NextAttack == BruteForceK5 \/ PartB

SpecAttack == InitAttack /\ [][NextAttack]_vars

-----------------------------------------------------------------------------
(* Properties *)

\* what a table sends n to, read off the table as a relation
Image(table, n) ==
  (CHOOSE kv \in {table[i] : i \in 1..Len(table)} : kv[1] = n)[2]

\* nibble j of v, nibble 0 the least significant
Nibble(v, j) == (v \div (16 ^ j)) % 16

\* the single-bit masks set in v
BitsOf(v) == {2 ^ e : e \in {d \in 0..15 : (v \div (2 ^ d)) % 2 = 1}}

\* bit loc of v, position 1 the most significant
Bit(v, loc) == (v \div (2 ^ (16 - loc))) % 2

\* the XOR of the bits of v at locs
XorBits(v, locs) ==
  Cardinality({i \in 1..Len(locs) : Bit(v, locs[i]) = 1}) % 2

\* k with every nibble that holds none of the positions ulocs set to zero
Masked(k, ulocs) ==
  LET used == {3 - ((ulocs[i] - 1) \div 4) : i \in 1..Len(ulocs)}
      Keep(j) == IF j \in used THEN Nibble(k, j) * (16 ^ j) ELSE 0
  IN Keep(3) + Keep(2) + Keep(1) + Keep(0)

\* C1: under round keys that from_keys accepted, encrypt of a block
\* succeeds, decrypt of the ciphertext succeeds, and it gives the block back
C1_DecryptInvertsEncrypt ==
  /\ op[1] = "encrypt" => ret.kind = "Ok" /\ ret.val \in U16 /\ ct = ret.val
  /\ op[1] = "decrypt" => ret = Ok(pt)

C1_RoundTripDone ==
  /\ op[1] = "decrypt"
  /\ cipher.val = <<64910, 13802, 60451, 2597, 21671>>
  /\ pt = 43981
  /\ ct # pt
  /\ ret = Ok(pt)

\* C6: substitute over a total table returns the block whose nibble j is
\* the table's image of nibble j of the input, whatever the other nibbles
\* are; the S-box sends 0xABCD to 0x6C59
C6_SubstituteNibblewise ==
  op[1] = "substitute" =>
    /\ ret.kind = "Ok"
    /\ ret.val \in U16
    /\ \A j \in 0..3 :
         Nibble(ret.val, j) = Image(TableOf(op[2]), Nibble(pt, j))
    /\ (op[2] = "SBOX" /\ pt = 43981) => ret.val = 27737

C6_TestVector ==
  op = <<"substitute", "SBOX">> /\ pt = 43981 /\ ret = Ok(27737)

\* C7: permute returns the OR of the destination masks of the bits set in
\* the input, the additions never overflowing; as many bits are set in the
\* result as in the input; PERMUTATION sends 0xF000 to 0x8888
C7_PermuteIsOr ==
  op[1] = "permute" =>
    /\ ret.kind = "Ok"
    /\ ret.val \in U16
    /\ BitsOf(ret.val) = {Image(TableOf(op[2]), b) : b \in BitsOf(pt)}
    /\ Cardinality(BitsOf(ret.val)) = Cardinality(BitsOf(pt))
    /\ (op[2] = "PERMUTATION" /\ pt = 61440) => ret.val = 34952

C7_AllBitsPermuted ==
  op = <<"permute", "PERMUTATION_INVERT">> /\ pt = 65535 /\ ret = Ok(65535)
  /\ overflow_checks

\* C10: with positions in 1..16, check_linear_approx returns 0 or 1, and 1
\* exactly when the XOR of the plaintext bits at pt_locs and of the bits at
\* u4_locs of substitute(ct ^ round_keys[4], SBOX_INVERT) is 0; ciphers with
\* the same last round key give the same vote
C10_VoteIsParity ==
  (op[1] = "check_linear_approx" /\ ValidLocs(pt_locs) /\ ValidLocs(u4_locs))
  => /\ ret.kind = "Ok"
     /\ ret.val \in {0, 1}
     /\ ret.val = 1 <=>
          XorBits(pt, pt_locs)
          = XorBits(substitute(mix_key(ct, cipher.val[5]), SBOX_INVERT).val,
                    u4_locs)
     /\ \A keys \in KeyLists :
          (Len(keys) = 5 /\ keys[5] = cipher.val[5])
          => check_linear_approx(keys, pt, ct, pt_locs, u4_locs) = ret

C10_VoteCast ==
  /\ op[1] = "check_linear_approx"
  /\ cipher.val = <<9, 8, 7, 6, 5>>
  /\ pt_locs = <<5, 7, 8>>
  /\ u4_locs = <<6, 8, 14, 16>>
  /\ pt = 3855
  /\ ret = Ok(1)

\* C8: a position outside 1..16 in pt_locs or u4_locs makes
\* check_linear_approx return the range error of get_bit_1base as an error
\* result
C8_RangeErrorReturned ==
  (op[1] = "check_linear_approx"
   /\ ~(ValidLocs(pt_locs) /\ ValidLocs(u4_locs)))
  => ret = Err("loc must be between 1 and 16")

\* the number of pairs of the zipped corpus that vote 1
VotesFor(pts, cts) ==
  Cardinality({i \in 1..Min(Len(pts), Len(cts)) :
    check_linear_approx(cipher.val, pts[i], cts[i], pt_locs, u4_locs)
    = Ok(1)})

\* the claim of C4 for the corpus pts, cts
BiasOfExactCount(pts, cts, c) ==
  (/\ Len(pts) = Len(cts)
   /\ Len(pts) \in 1..(U16_MAX + 1)
   /\ ValidLocs(pt_locs) /\ ValidLocs(u4_locs))
  => /\ ret.kind = "Ok"
     /\ ~ret.val.nan
     /\ ~FxLess(Half.w, ret.val.w)
     /\ ret.val = BiasOf(F64Div(c, Len(pts)))
     /\ vote_sum(cipher.val, pts, cts, pt_locs, u4_locs) = Ok(c)

\* C4: for a corpus of 1 to 65536 pairs and positions in 1..16 the vote sum
\* is the number c of pairs that vote 1, and get_bias returns |c/n - 1/2|,
\* a value between 0 and 0.5
C4_BiasOfExactCount ==
  op[1] = "get_bias" =>
    BiasOfExactCount(Repeated(plaintexts, copies),
                     Repeated(ciphertexts, copies),
                     copies * VotesFor(plaintexts, ciphertexts))

\* C9: get_bias fails when the two sides of the corpus differ in length or
\* the corpus is empty
C9_BadCorpusFails ==
  (/\ op[1] = "get_bias"
   /\ \/ Len(plaintexts) # Len(ciphertexts)
      \/ Len(plaintexts) = 0)
  => ret.kind # "Ok"

ProbeKeys == {4660, 43981, 65535, 21671}

\* the candidates of the restricted search: bits 5-8 and 13-16 free, the
\* other two nibbles zero
NibbleKeys == {a * 256 + b : a \in 0..15, b \in 0..15}

InNibbleKeys(e) == e[2] \in NibbleKeys
InCandidates(e) == e[2] <= MaxRoundKey

\* C5: a final subkey k votes, and so ranks, as k with the nibbles that hold
\* none of the u4 positions set to zero; partb's search ranks the 256
\* candidates over bits 5-8 and 13-16, in the order and with the biases
\* they have in the ranking of brute_force_k5
C5_OnlyTargetedNibbles ==
  /\ \A k \in ProbeKeys : \A i \in 1..Len(plaintexts) :
       check_linear_approx(<<0, 0, 0, 0, k>>, plaintexts[i], ciphertexts[i],
                           pt_locs, u4_locs)
       = check_linear_approx(<<0, 0, 0, 0, Masked(k, u4_locs)>>,
                             plaintexts[i], ciphertexts[i], pt_locs, u4_locs)
  /\ rankings.kind = "Ok" =>
       \A i \in 1..Len(rankings.val) :
         Ok(rankings.val[i][1])
         = get_bias(<<0, 0, 0, 0, Masked(rankings.val[i][2], u4_locs)>>,
                    plaintexts, ciphertexts, pt_locs, u4_locs)
  /\ restricted.kind = "Ok" =>
       {restricted.val[i][2] : i \in 1..Len(restricted.val)} = NibbleKeys
  /\ (/\ rankings # None /\ restricted # None
      /\ pt_locs = <<5, 7, 8>> /\ u4_locs = <<6, 8, 14, 16>>)
     => /\ rankings.kind = restricted.kind
        /\ rankings.kind = "Ok" =>
             SelectSeq(rankings.val, InNibbleKeys)
             = SelectSeq(restricted.val, InCandidates)

C5_BothSearchesRan ==
  /\ rankings.kind = "Ok" /\ restricted.kind = "Ok"
  /\ pt_locs = <<5, 7, 8>> /\ u4_locs = <<6, 8, 14, 16>>
  /\ Len(plaintexts) = 3
  /\ \E i \in 1..(Len(rankings.val) - 1) :
       /\ rankings.val[i][2] \notin NibbleKeys
       /\ rankings.val[i + 1][2] \in NibbleKeys
  /\ \E i \in 1..(Len(restricted.val) - 1) :
       FxLess(restricted.val[i + 1][1].w, restricted.val[i][1].w)

====
